---- MODULE Spec2Model ----
(***************************************************************************)
(* Model of the Fortnite update notifier: one run of main() in             *)
(* fortnite_update_notifier.py (load state, probe the sources, reconcile,  *)
(* dedupe, deliver, persist), repeated over the one persisted state file.  *)
(* Optional values are the string None; an absent source record is         *)
(* NoRecord.  Text is a sequence of one-character strings where the code   *)
(* searches inside it (section headers), an opaque string elsewhere.       *)
(* Publish times, the first maintenance probe (line 302) and the rendered  *)
(* display time are left out: they feed only the "Time" field of the embed *)
(* and never raise.  The locals of main() after line 293 are LET           *)
(* definitions of the step that ends the run.                              *)
(***************************************************************************)
EXTENDS Integers, Sequences, FiniteSets, TLC

VARIABLES
    state_file,        \* last_version stored in STATE_PATH
    pc,                \* position of the current run of main()
    forced,            \* main: forced
    last_version,      \* main: last_version as loaded
    news_url, news,    \* main: result of get_latest_news_article()
    dev_url, devs,     \* main: result of probe_dev_docs()
    uefn_url, uefn,    \* main: result of probe_uefn_whats_new()
    api_url, api,      \* main: result of probe_fortnite_api()
    version,           \* main: resolved version
    reason,            \* main: reason of the unknown path (lines 332, 335)
    response,          \* what the webhook answered to the latest post
    posts,             \* payloads the webhook accepted in the latest run
    post_calls,        \* calls of post_webhook in the latest run
    writes,            \* calls of save_state in the latest run
    outcome,           \* how the latest run ended
    last_real,         \* history: latest real version a non-forced run announced
    \* one call of size_parser._cluster_values from parse_crowd_sizes
    cv_pc,             \* position in the call
    cv_values,         \* values, in hundredths of a GB
    cv_vals,           \* vals
    cv_i, cv_j,        \* i, j (1-based)
    cv_cluster,        \* cluster
    cv_best,           \* best_cluster
    cv_formed,         \* history: the clusters closed so far, in order
    cv_ret,            \* the returned (median, votes), the median doubled
    cv_emit,           \* parse_crowd_sizes: min_votes and the platform's entry
    \* one call of fortnite_scraper.select_top_sections
    sel_pc,            \* position in the call
    sel_article,       \* article
    sel_max_sections,  \* max_sections
    sel_max_items_per, \* max_items_per
    sel_lines,         \* the returned lines
    \* one source's parser reads a version out of what the source returned
    nv_pc,             \* position
    nv_source,         \* which parser
    nv_text,           \* the text the source returned, a sequence of characters
    nv_version,        \* the "version" of the parsed record
    \* one call of fortnite_update_notifier.fetch
    f_pc,              \* position in the call
    f_retries,         \* retries
    f_json_mode,       \* json_mode
    f_i,               \* i
    f_delay,           \* delay, in tenths of a second
    f_last_exc,        \* last_exc
    f_attempts,        \* history: what each requests.get attempt came to
    f_sleeps,          \* history: the argument of each time.sleep
    f_result           \* what the call returned or raised

main_vars == <<state_file, pc, forced, last_version,
               news_url, news, dev_url, devs, uefn_url, uefn, api_url, api,
               version, reason, response, posts, post_calls, writes, outcome, last_real>>

cluster_vars == <<cv_pc, cv_values, cv_vals, cv_i, cv_j, cv_cluster, cv_best,
                  cv_formed, cv_ret, cv_emit>>

\* the variables that a run of main() leaves alone
select_vars == <<sel_pc, sel_article, sel_max_sections, sel_max_items_per, sel_lines>>

norm_vars == <<nv_pc, nv_source, nv_text, nv_version>>

fetch_vars == <<f_pc, f_retries, f_json_mode, f_i, f_delay, f_last_exc,
                f_attempts, f_sleeps, f_result>>

aux == <<cluster_vars, select_vars, norm_vars, fetch_vars>>

\* what a call of _cluster_values leaves alone
not_cluster == <<main_vars, select_vars, norm_vars, fetch_vars>>

\* what a call of select_top_sections leaves alone
not_select == <<main_vars, cluster_vars, norm_vars, fetch_vars>>

\* what a parser leaves alone
not_norm == <<main_vars, cluster_vars, select_vars, fetch_vars>>

\* what a call of fetch leaves alone
not_fetch == <<main_vars, cluster_vars, select_vars, norm_vars>>

vars == <<main_vars, aux>>

probes == <<news_url, news, dev_url, devs, uefn_url, uefn, api_url, api>>

(***************************************************************************)
(* Values                                                                  *)
(***************************************************************************)
None == "None"
Unknown == "(unknown)"
Versions == {"v37.10", "v37.20"}

\* bound on the article links found on the news landing page
MaxCandidates == 2

Truthy(v) == v # None /\ v # ""
PyOr(a, b) == IF Truthy(a) THEN a ELSE b

NoRecord == [present |-> FALSE, version |-> None, sections |-> <<>>]
Record(v, s) == [present |-> TRUE, version |-> v, sections |-> s]
Get(rec, key) == IF rec.present THEN rec[key] ELSE None

HdrHighlights == <<"H","i","g","h","l","i","g","h","t","s">>
HdrBugFixes == <<"B","u","g"," ","F","i","x","e","s">>
HdrNewWeapons == <<"N","e","w"," ","W","e","a","p","o","n","s">>
HdrIslands == <<"I","s","l","a","n","d","s">>
HdrUefnCaps == <<"U","E","F","N">>

ApiNewsSecs == << [header |-> HdrHighlights, items |-> <<"motd body">>] >>
NewsSecs == << [header |-> HdrNewWeapons, items |-> <<"news item">>] >>
DevSecs == << [header |-> HdrIslands, items |-> <<"dev item 1", "dev item 2">>],
              [header |-> HdrBugFixes, items |-> <<"dev fix">>] >>
UefnSecs == << [header |-> HdrBugFixes, items |-> <<"uefn fix">>] >>

API_NEWS_LINK == "https://fortniteapi.io/news"
NEWS_ARTICLE_HREF == "https://www.fortnite.com/news/article"
DEV_DOCS == <<"dev-docs/37-10", "dev-docs/37-00", "dev-docs/36-20">>
UEFN_WHATS_NEW_URL == "dev-docs/whats-new-in-uefn"
FORTNITE_API_LINK == "https://fortniteapi.io/"
\* a link is its label and its URL: [label](url)
Link(label, url) == <<label, url>>
EPIC_STATUS_LINK == Link("Epic Status", "https://status.epicgames.com/")
PLACEHOLDER == "*(no details available)*"
SEE_FULL_NOTES == "See full notes below."
REASON_DOWNTIME == "Downtime detected via Epic Status"
REASON_MISMATCH == "State mismatch detected"
UNKNOWN_CONTENT == "Fortnite update notifier - unknown version"

(***************************************************************************)
(* fortnite_scraper.select_top_sections                                    *)
(***************************************************************************)
Chars(w) ==
    CASE w = "new" -> <<"n","e","w">>
      [] w = "weapon" -> <<"w","e","a","p","o","n">>
      [] w = "gadget" -> <<"g","a","d","g","e","t">>
      [] w = "map" -> <<"m","a","p">>
      [] w = "gameplay" -> <<"g","a","m","e","p","l","a","y">>
      [] w = "vehicles" -> <<"v","e","h","i","c","l","e","s">>
      [] w = "improvements" -> <<"i","m","p","r","o","v","e","m","e","n","t","s">>
      [] w = "fixes" -> <<"f","i","x","e","s">>
      [] w = "creative" -> <<"c","r","e","a","t","i","v","e">>
      [] w = "uefn" -> <<"u","e","f","n">>
      [] w = "performance" -> <<"p","e","r","f","o","r","m","a","n","c","e">>
      [] w = "bug" -> <<"b","u","g">>

\* the priority tuple, each keyword already lowered (k.lower())
priority == <<"new", "weapon", "gadget", "map", "gameplay", "vehicles",
              "improvements", "fixes", "creative", "uefn", "performance", "bug">>

LowerChar(c) ==
    CASE c = "A" -> "a" [] c = "B" -> "b" [] c = "C" -> "c" [] c = "D" -> "d" [] c = "E" -> "e"
      [] c = "F" -> "f" [] c = "G" -> "g" [] c = "H" -> "h" [] c = "I" -> "i" [] c = "J" -> "j"
      [] c = "K" -> "k" [] c = "L" -> "l" [] c = "M" -> "m" [] c = "N" -> "n" [] c = "O" -> "o"
      [] c = "P" -> "p" [] c = "Q" -> "q" [] c = "R" -> "r" [] c = "S" -> "s" [] c = "T" -> "t"
      [] c = "U" -> "u" [] c = "V" -> "v" [] c = "W" -> "w" [] c = "X" -> "x" [] c = "Y" -> "y"
      [] c = "Z" -> "z"
      [] OTHER -> c

Lower(text) == [i \in 1..Len(text) |-> LowerChar(text[i])]

\* Python's `k in hdr` on strings
IsSubstring(k, hdr) ==
    \E i \in 1..(Len(hdr) - Len(k) + 1) : SubSeq(hdr, i, i + Len(k) - 1) = k

RECURSIVE CountHits(_, _)
CountHits(hdr, n) ==
    IF n = 0 THEN 0
    ELSE CountHits(hdr, n - 1) + (IF IsSubstring(Chars(priority[n]), hdr) THEN 1 ELSE 0)

Score(sec) == CountHits(Lower(sec.header), Len(priority))

SortByScoreDesc_Unsorted(sections, s) == sections

\* scored.sort(key=score, reverse=True): stable, highest score first
RECURSIVE SortByScoreDesc(_, _)
SortByScoreDesc(sections, s) ==
    IF s < 0 THEN <<>>
    ELSE SelectSeq(sections, LAMBDA sec : Score(sec) = s) \o SortByScoreDesc(sections, s - 1)

Prefix(seq, n) == SubSeq(seq, 1, IF Len(seq) < n THEN Len(seq) ELSE n)

HeaderLine(sec) ==
    [kind |-> "header", text |-> IF sec.header = <<>> THEN HdrHighlights ELSE sec.header]
ItemLine(it) == [kind |-> "item", text |-> <<it>>]
NoteLine(t) == [kind |-> "note", text |-> <<t>>]

SectionLines(sec, max_items_per) ==
    <<HeaderLine(sec)>> \o
    [i \in 1..Len(Prefix(sec.items, max_items_per)) |-> ItemLine(sec.items[i])]

RECURSIVE Flatten(_, _)
Flatten(secs, max_items_per) ==
    IF secs = <<>> THEN <<>>
    ELSE SectionLines(Head(secs), max_items_per) \o Flatten(Tail(secs), max_items_per)

select_top_sections(article, max_sections, max_items_per) ==
    LET sections == IF article.present THEN article.sections ELSE <<>> IN
    IF sections = <<>> THEN <<>>
    ELSE Flatten(Prefix(SortByScoreDesc(sections, Len(priority)), max_sections),
                 max_items_per)

(***************************************************************************)
(* Probes.  What the network returns is an input of each probe: the final  *)
(* result of fetch() after its retries, or of a fortnite_api call.         *)
(***************************************************************************)
Probe(url, rec) == [raised |-> FALSE, url |-> url, rec |-> rec]
ProbeNone == Probe(None, NoRecord)
ProbeRaised == [raised |-> TRUE, url |-> None, rec |-> NoRecord]

Failed(kind) == [kind |-> kind, rec |-> NoRecord]
Parsed(rec) == [kind |-> "parsed", rec |-> rec]

\* fetch_fortnite_news(): raises, returns None, or one record with one section
ApiNewsResults ==
    {Failed("error"), Failed("none")} \cup
    {Parsed(Record(v, ApiNewsSecs)) : v \in Versions \cup {None}}

\* fetch(NEWS_URL): the page, HTTPError 403, another HTTPError, or any other error
LandingResults == {"ok", "http_403", "http_error", "error"}

\* fetch(href) + parse_fortnite_news_article
ArticleResults ==
    {Failed("http_error"), Failed("error")} \cup
    {Parsed(Record(v, s)) : v \in Versions \cup {None}, s \in {<<>>, NewsSecs}}

Candidate(score, result) == [score |-> score, result |-> result]
Candidates == {Candidate(sc, r) : sc \in {0, 1}, r \in ArticleResults}

RECURSIVE SeqsUpTo(_, _)
SeqsUpTo(S, n) ==
    IF n = 0 THEN {<<>>}
    ELSE LET shorter == SeqsUpTo(S, n - 1) IN
         shorter \cup {Append(q, x) : q \in {r \in shorter : Len(r) = n - 1}, x \in S}

\* sorted(candidates, key=score, reverse=True): stable
SortCandidates(candidates) ==
    SelectSeq(candidates, LAMBDA c : c.score = 1) \o
    SelectSeq(candidates, LAMBDA c : c.score = 0)

RECURSIVE FirstArticle(_)
FirstArticle(candidates) ==
    IF candidates = <<>> THEN ProbeNone
    ELSE LET r == Head(candidates).result IN
         IF r.kind = "parsed" /\ (Truthy(r.rec.version) \/ r.rec.sections # <<>>)
         THEN Probe(NEWS_ARTICLE_HREF, r.rec)
         ELSE FirstArticle(Tail(candidates))

get_latest_news_article(api_news, landing, candidates) ==
    IF api_news.kind = "parsed" THEN Probe(API_NEWS_LINK, api_news.rec)
    ELSE IF landing = "http_403" THEN ProbeNone
    ELSE IF landing # "ok" THEN ProbeRaised
    ELSE FirstArticle(SortCandidates(candidates))

\* fetch(url) + parse_epic_dev_docs_article, one per DEV_DOCS entry
DocResults ==
    {Failed("error")} \cup
    {Parsed(Record(v, s)) : v \in Versions \cup {None}, s \in {<<>>, DevSecs}}

RECURSIVE FirstDoc(_, _)
FirstDoc(docs, i) ==
    IF i > Len(DEV_DOCS) THEN ProbeNone
    ELSE IF docs[i].kind = "parsed" /\ Truthy(docs[i].rec.version)
         THEN Probe(DEV_DOCS[i], docs[i].rec)
         ELSE FirstDoc(docs, i + 1)

probe_dev_docs(docs) == FirstDoc(docs, 1)

\* fetch(UEFN_WHATS_NEW_URL) + parse_uefn_whats_new
UefnResults ==
    {Failed("error"), Parsed(Record(None, <<>>))} \cup
    {Parsed(Record(v, s)) : v \in Versions, s \in {<<>>, UefnSecs}}

probe_uefn_whats_new(page) ==
    IF page.kind = "parsed" /\ Truthy(page.rec.version)
    THEN Probe(UEFN_WHATS_NEW_URL, page.rec)
    ELSE ProbeNone

\* fetch_game_version(): raises or returns a record without sections
GameVersionResults ==
    {Failed("error")} \cup {Parsed(Record(v, <<>>)) : v \in Versions \cup {None, ""}}

probe_fortnite_api(data) ==
    IF data.kind = "parsed" /\ Truthy(data.rec.version)
    THEN Probe(FORTNITE_API_LINK, data.rec)
    ELSE ProbeNone

\* fetch_fortnite_status(): raises, no downtime, or the begin time
ApiStatusResults == {"error", "none", "2025-09-06T08:00:00Z"}
\* fetch(EPIC_STATUS_URL) + regex: raises, no match, or the matched time
StatusPageResults == {"error", "none", "Sep 6, 08:00 UTC"}

epic_status_maintenance_time(api_status, page) ==
    IF api_status \notin {"error", "none"} THEN api_status
    ELSE IF page \notin {"error", "none"} THEN page
    ELSE None

\* fetch(REDDIT_NEW_JSON) + parse_crowd_sizes + format_size_field
CrowdResults == {"error", "none", "PC 5.1 GB (3)"}
\* ENABLE_CROWDSIZE of the process
CrowdFlags == BOOLEAN

crowdsourced_sizes(enabled, feed) ==
    IF ~enabled THEN None
    ELSE IF feed \in {"error", "none"} THEN None
    ELSE feed

(***************************************************************************)
(* Reconciliation, embed and delivery                                      *)
(***************************************************************************)
\* variant: the vendor API consulted before the UEFN page
ResolveVersion_ApiFirst(n, d, u, a) ==
    PyOr(Get(n, "version"), PyOr(Get(d, "version"), PyOr(Get(a, "version"), Get(u, "version"))))

\* main, lines 295-300
ResolveVersion(n, d, u, a) ==
    PyOr(Get(n, "version"), PyOr(Get(d, "version"), PyOr(Get(u, "version"), Get(a, "version"))))

\* main, line 311: news or devs or uefn or api
PickArticle(n, d, u, a) ==
    IF n.present THEN n ELSE IF d.present THEN d ELSE IF u.present THEN u ELSE a

\* main, line 312
HighlightLines(article) ==
    IF article.present THEN select_top_sections(article, 3, 3)
    ELSE <<NoteLine(PLACEHOLDER)>>

OptLink(label, url) == IF Truthy(url) THEN <<Link(label, url)>> ELSE <<>>

\* variant: the vendor API link placed before the UEFN link
BuildLinks_ApiBeforeUefn(nu, du, uu, au) ==
    OptLink("Full notes (News)", nu) \o OptLink("Dev release notes", du) \o
    OptLink("fortniteapi.io", au) \o OptLink("UEFN What's New", uu) \o
    <<EPIC_STATUS_LINK>>

\* main, lines 316-321
BuildLinks(nu, du, uu, au) ==
    OptLink("Full notes (News)", nu) \o OptLink("Dev release notes", du) \o
    OptLink("UEFN What's New", uu) \o OptLink("fortniteapi.io", au) \o
    <<EPIC_STATUS_LINK>>

\* variant: the title without the version
Title_NoVersion(ver, f) == <<"Fortnite Update">> \o (IF f THEN <<"(forced)">> ELSE <<>>)

\* line 268
Title(ver, f) == <<"Fortnite Update", ver>> \o (IF f THEN <<"(forced)">> ELSE <<>>)

build_embed(ver, lns, lks, size, f) ==
    [title |-> Title(ver, f),
     description |-> IF lns = <<>> THEN <<NoteLine(SEE_FULL_NOTES)>> ELSE Prefix(lns, 12),
     size |-> IF Truthy(size) THEN size ELSE None,
     links |-> lks]

Wire(content, payload) == [content |-> content, embed |-> payload]

\* what requests.post gives: a response of some status class, or a transport error
PostResults == {"2xx", "4xx", "5xx", "error"}

\* variant: raise_for_status() left out, only transport errors raise
PostRaises_TransportOnly(resp) == resp = "error"

\* post_webhook raises on a transport error and, by raise_for_status, on 4xx/5xx
PostRaises(resp) == resp # "2xx"

\* variant: the unknown path is never entered
UnknownPath_Never(ver, f) == FALSE

\* main, line 329
UnknownPath(ver, f) == ~Truthy(ver) /\ ~f

\* variant: the dedupe gate never suppresses
Deduped_Never(f, last, ver) == FALSE

\* main, line 353
Deduped(f, last, ver) == ~f /\ last = ver

\* variant: the state is saved on forced runs too
ShouldSave_Forced(f, ver) == Truthy(ver)

\* main, line 362
ShouldSave(f, ver) == ~f /\ Truthy(ver)

\* load_state: the stored last_version, None when the file is missing
load_state == state_file

(***************************************************************************)
(* One run of main()                                                       *)
(***************************************************************************)
ClearProbes ==
    /\ news_url' = None /\ news' = NoRecord
    /\ dev_url' = None /\ devs' = NoRecord
    /\ uefn_url' = None /\ uefn' = NoRecord
    /\ api_url' = None /\ api' = NoRecord

MainInit ==
    /\ state_file = None
    /\ pc = "idle"
    /\ forced = FALSE
    /\ last_version = None
    /\ news_url = None /\ news = NoRecord
    /\ dev_url = None /\ devs = NoRecord
    /\ uefn_url = None /\ uefn = NoRecord
    /\ api_url = None /\ api = NoRecord
    /\ version = None
    /\ reason = None
    /\ response = None
    /\ posts = <<>>
    /\ post_calls = 0
    /\ writes = 0
    /\ outcome = "none"
    /\ last_real = None

\* no call of _cluster_values is under way
ClusterOff ==
    /\ cv_pc = "off"
    /\ cv_values = <<>> /\ cv_vals = <<>>
    /\ cv_i = 0 /\ cv_j = 0
    /\ cv_cluster = <<>> /\ cv_best = <<>> /\ cv_formed = <<>>
    /\ cv_ret = <<0, 0>>
    /\ cv_emit = [min_votes |-> 0, emitted |-> FALSE, gb |-> 0, votes |-> 0]

\* no call of select_top_sections is under way
SelectOff ==
    /\ sel_pc = "off"
    /\ sel_article = NoRecord
    /\ sel_max_sections = 0 /\ sel_max_items_per = 0
    /\ sel_lines = <<>>

\* no parser is at work
NormOff ==
    /\ nv_pc = "off"
    /\ nv_source = None
    /\ nv_text = <<>>
    /\ nv_version = <<>>

\* no call of fetch is under way
FetchOff ==
    /\ f_pc = "off"
    /\ f_retries = 0 /\ f_json_mode = FALSE
    /\ f_i = 0 /\ f_delay = 0
    /\ f_last_exc = None
    /\ f_attempts = <<>> /\ f_sleeps = <<>>
    /\ f_result = None

Init == MainInit /\ ClusterOff /\ SelectOff /\ NormOff /\ FetchOff

\* a source probe let its exception escape: main() dies with it
Abort ==
    /\ pc' = "idle"
    /\ outcome' = "source_error"
    /\ ClearProbes
    /\ UNCHANGED <<state_file, forced, last_version, version, reason, response,
                   posts, post_calls, writes, last_real>>

\* lines 283-288: the process starts, checks its configuration, loads the state
Main_Start ==
    /\ UNCHANGED aux
    /\ pc = "idle"
    /\ \E f \in BOOLEAN, webhook \in BOOLEAN :
        /\ forced' = f
        /\ IF webhook
           THEN /\ last_version' = load_state
                /\ pc' = "probe_news"
                /\ outcome' = "running"
           ELSE /\ last_version' = None
                /\ pc' = "idle"
                /\ outcome' = "config_error"
    /\ ClearProbes
    /\ version' = None /\ reason' = None /\ response' = None
    /\ posts' = <<>> /\ post_calls' = 0 /\ writes' = 0
    /\ UNCHANGED <<state_file, last_real>>

\* line 290
Main_ProbeNews ==
    /\ UNCHANGED aux
    /\ pc = "probe_news"
    /\ \E r \in {get_latest_news_article(api_news, landing, candidates) :
                    api_news \in ApiNewsResults, landing \in LandingResults,
                    candidates \in SeqsUpTo(Candidates, MaxCandidates)} :
        IF r.raised THEN Abort
        ELSE /\ news_url' = r.url /\ news' = r.rec
             /\ pc' = "probe_devs"
             /\ UNCHANGED <<state_file, forced, last_version,
                            dev_url, devs, uefn_url, uefn, api_url, api, version,
                            reason, response, posts, post_calls, writes, outcome, last_real>>

\* line 291
Main_ProbeDevDocs ==
    /\ UNCHANGED aux
    /\ pc = "probe_devs"
    /\ \E r \in {probe_dev_docs(docs) : docs \in [1..Len(DEV_DOCS) -> DocResults]} :
        IF r.raised THEN Abort
        ELSE /\ dev_url' = r.url /\ devs' = r.rec
             /\ pc' = "probe_uefn"
             /\ UNCHANGED <<state_file, forced, last_version,
                            news_url, news, uefn_url, uefn, api_url, api, version,
                            reason, response, posts, post_calls, writes, outcome, last_real>>

\* line 292
Main_ProbeUefn ==
    /\ UNCHANGED aux
    /\ pc = "probe_uefn"
    /\ \E r \in {probe_uefn_whats_new(page) : page \in UefnResults} :
        IF r.raised THEN Abort
        ELSE /\ uefn_url' = r.url /\ uefn' = r.rec
             /\ pc' = "probe_api"
             /\ UNCHANGED <<state_file, forced, last_version,
                            news_url, news, dev_url, devs, api_url, api, version,
                            reason, response, posts, post_calls, writes, outcome, last_real>>

\* line 293
Main_ProbeApi ==
    /\ UNCHANGED aux
    /\ pc = "probe_api"
    /\ \E r \in {probe_fortnite_api(data) : data \in GameVersionResults} :
        IF r.raised THEN Abort
        ELSE /\ api_url' = r.url /\ api' = r.rec
             /\ pc' = "reconcile"
             /\ UNCHANGED <<state_file, forced, last_version,
                            news_url, news, dev_url, devs, uefn_url, uefn, version,
                            reason, response, posts, post_calls, writes, outcome, last_real>>

\* main's locals of lines 295-321, from the probe results
Version == ResolveVersion(news, devs, uefn, api)
Article == PickArticle(news, devs, uefn, api)
Lines == HighlightLines(Article)
Links == BuildLinks(news_url, dev_url, uefn_url, api_url)

\* post_webhook(wire), then what follows it on the path taken
Deliver(wire, resp, save, value) ==
    /\ post_calls' = post_calls + 1
    /\ response' = resp
    /\ IF PostRaises(resp)
       THEN /\ outcome' = "delivery_error"
            /\ UNCHANGED <<posts, state_file, writes, last_real>>
       ELSE /\ outcome' = "returned"
            /\ posts' = Append(posts, wire)
            /\ IF save
               THEN state_file' = value /\ writes' = writes + 1
               ELSE UNCHANGED <<state_file, writes>>
            /\ last_real' = IF ~forced /\ value \in Versions THEN value ELSE last_real
    /\ pc' = "idle"
    /\ version' = Version
    /\ ClearProbes
    /\ UNCHANGED <<forced, last_version>>

\* lines 295-350: reconcile, then the unknown path
Main_UnknownPath ==
    /\ UNCHANGED aux
    /\ pc = "reconcile"
    /\ UnknownPath(Version, forced)
    /\ \E maint \in {epic_status_maintenance_time(api_status, page) :
                        api_status \in ApiStatusResults, page \in StatusPageResults},
          size \in {crowdsourced_sizes(enabled, feed) :
                       enabled \in CrowdFlags, feed \in CrowdResults},
          resp \in PostResults :
        LET reason_ == IF Truthy(maint) THEN REASON_DOWNTIME ELSE REASON_MISMATCH
            payload == build_embed(Unknown, <<NoteLine(reason_)>>, <<EPIC_STATUS_LINK>>,
                                   size, forced)
        IN /\ reason' = reason_
           /\ Deliver(Wire(UNKNOWN_CONTENT, payload),
                      resp, TRUE, Unknown)

\* lines 295-355: reconcile, then the dedupe gate suppresses the run
Main_DedupeSkip ==
    /\ UNCHANGED aux
    /\ pc = "reconcile"
    /\ ~UnknownPath(Version, forced)
    /\ Deduped(forced, last_version, Version)
    /\ pc' = "idle"
    /\ outcome' = "returned"
    /\ version' = Version
    /\ ClearProbes
    /\ UNCHANGED <<state_file, forced, last_version, reason, response,
                   posts, post_calls, writes, last_real>>

\* lines 295-364: reconcile, deliver, persist
Main_Deliver ==
    /\ UNCHANGED aux
    /\ pc = "reconcile"
    /\ ~UnknownPath(Version, forced)
    /\ ~Deduped(forced, last_version, Version)
    /\ UNCHANGED reason
    /\ LET ver == Version
           lns == Lines
           lks == Links
       IN \E size \in {crowdsourced_sizes(enabled, feed) :
                           enabled \in CrowdFlags, feed \in CrowdResults},
             resp \in PostResults :
            Deliver(Wire("Fortnite update notifier", build_embed(ver, lns, lks, size, forced)),
                    resp, ShouldSave(forced, ver), ver)

Next ==
    \/ Main_Start
    \/ Main_ProbeNews
    \/ Main_ProbeDevDocs
    \/ Main_ProbeUefn
    \/ Main_ProbeApi
    \/ Main_UnknownPath
    \/ Main_DedupeSkip
    \/ Main_Deliver

Spec == Init /\ [][Next]_vars

(***************************************************************************)
(* size_parser._cluster_values and the vote threshold of parse_crowd_sizes *)
(* Sizes are integers in hundredths of a GB; a median is kept doubled, so  *)
(* that the mean of two members stays an integer.                          *)
(***************************************************************************)

\* the longest list of observations one platform collects
MaxObs == 4

\* the sizes a post may state: 1.00, 1.25, 1.50, 5.00, 5.05, 5.10, 9.00, 10.00 GB
ObsValues == {100, 125, 150, 500, 505, 510, 900, 1000}

ObsLists == UNION {[1..n -> ObsValues] : n \in 0..MaxObs}

\* size_parser.py:88, rel_tol=0.12 in hundredths
REL_TOL == 12

\* size_parser.py:88, abs_tol=0.25 GB in hundredths of a GB
ABS_TOL == 25

\* size_parser.py:125, min_votes=2; callers may pass another threshold
MIN_VOTES == 2

MinVotes == {MIN_VOTES - 1, MIN_VOTES, MIN_VOTES + 1}

Max(a, b) == IF a >= b THEN a ELSE b

Abs(a) == IF a >= 0 THEN a ELSE 0 - a

\* line 101: sorted(values); place k holds the value that fewer than k values
\* are below and at least k values are not above
Sorted(values) ==
    [k \in 1..Len(values) |->
        CHOOSE v \in {values[m] : m \in DOMAIN values} :
            /\ Cardinality({m \in DOMAIN values : values[m] < v}) < k
            /\ k <= Cardinality({m \in DOMAIN values : values[m] <= v})]

RunningMedian_First(c) == c[1]

\* line 108: median = cluster[len(cluster) // 2]
RunningMedian(c) == c[Len(c) \div 2 + 1]

\* lines 109-110: dt = abs(vals[j] - median); dt <= max(abs_tol, median * rel_tol)
WithinTolerance(median, v) == Abs(v - median) * 100 <= Max(ABS_TOL * 100, median * REL_TOL)

NextStart_Following(i, j) == i + 1

\* line 114: i = j
NextStart(i, j) == j

\* lines 119-120: the middle member, or the mean of the two middle members
FinalMedian2(best) ==
    LET k == Len(best)
        mid == k \div 2
    IN  IF k % 2 = 1 THEN 2 * best[mid + 1] ELSE best[mid] + best[mid + 1]

\* line 155: round(median, 2); a median that ends in half a hundredth is not
\* exact in binary floating point and may round either way
Round2(median2) ==
    IF median2 % 2 = 0 THEN {median2 \div 2}
    ELSE {median2 \div 2, median2 \div 2 + 1}

\* line 154: if votes >= min_votes
Emits(votes, min_votes) == votes >= min_votes

NoEntry(mv) == [min_votes |-> mv, emitted |-> FALSE, gb |-> 0, votes |-> 0]

\* one platform's observations reach _cluster_values
InitCluster ==
    /\ MainInit /\ SelectOff /\ NormOff /\ FetchOff
    /\ cv_pc = "call"
    /\ cv_values \in ObsLists
    /\ cv_vals = <<>>
    /\ cv_i = 0 /\ cv_j = 0
    /\ cv_cluster = <<>> /\ cv_best = <<>> /\ cv_formed = <<>>
    /\ cv_ret = <<0, 0>>
    /\ cv_emit = NoEntry(0)

\* lines 96-104: the empty list returns at once; otherwise sort and start at 0
Cluster_Enter ==
    /\ cv_pc = "call"
    /\ IF cv_values = <<>>
       THEN /\ cv_pc' = "returned"
            /\ cv_ret' = <<0, 0>>
            /\ UNCHANGED <<cv_vals, cv_i>>
       ELSE /\ cv_pc' = "outer"
            /\ cv_vals' = Sorted(cv_values)
            /\ cv_i' = 1
            /\ UNCHANGED cv_ret
    /\ UNCHANGED <<cv_values, cv_j, cv_cluster, cv_best, cv_formed, cv_emit, not_cluster>>

\* lines 105-107: while i < n: cluster = [vals[i]]; j = i + 1
Cluster_Outer ==
    /\ cv_pc = "outer"
    /\ cv_i <= Len(cv_vals)
    /\ cv_cluster' = <<cv_vals[cv_i]>>
    /\ cv_j' = cv_i + 1
    /\ cv_pc' = "inner"
    /\ UNCHANGED <<cv_values, cv_vals, cv_i, cv_best, cv_formed, cv_ret, cv_emit, not_cluster>>

\* lines 107-112: the next value is within tolerance and joins the cluster
Cluster_Extend ==
    /\ cv_pc = "inner"
    /\ cv_j <= Len(cv_vals)
    /\ WithinTolerance(RunningMedian(cv_cluster), cv_vals[cv_j])
    /\ cv_cluster' = Append(cv_cluster, cv_vals[cv_j])
    /\ cv_j' = cv_j + 1
    /\ UNCHANGED <<cv_pc, cv_values, cv_vals, cv_i, cv_best, cv_formed, cv_ret, cv_emit, not_cluster>>

\* lines 107, 112-114: the inner loop ends; keep the cluster if it is strictly
\* larger than the best so far; go on from j
Cluster_Close ==
    /\ cv_pc = "inner"
    /\ IF cv_j <= Len(cv_vals)
       THEN ~WithinTolerance(RunningMedian(cv_cluster), cv_vals[cv_j])
       ELSE TRUE
    /\ cv_best' = IF Len(cv_cluster) > Len(cv_best) THEN cv_cluster ELSE cv_best
    /\ cv_formed' = Append(cv_formed, cv_cluster)
    /\ cv_i' = NextStart(cv_i, cv_j)
    /\ cv_pc' = "outer"
    /\ UNCHANGED <<cv_values, cv_vals, cv_j, cv_cluster, cv_ret, cv_emit, not_cluster>>

\* lines 105, 116-121: the outer loop ends; return (median, k)
Cluster_Return ==
    /\ cv_pc = "outer"
    /\ cv_i > Len(cv_vals)
    /\ cv_ret' = IF Len(cv_best) = 0 THEN <<0, 0>>
                 ELSE <<FinalMedian2(cv_best), Len(cv_best)>>
    /\ cv_pc' = "returned"
    /\ UNCHANGED <<cv_values, cv_vals, cv_i, cv_j, cv_cluster, cv_best, cv_formed, cv_emit, not_cluster>>

\* parse_crowd_sizes lines 153-155: the platform gets an entry when the votes
\* reach min_votes
Parse_Emit ==
    /\ cv_pc = "returned"
    /\ \E mv \in MinVotes :
          IF Emits(cv_ret[2], mv)
          THEN \E gb \in Round2(cv_ret[1]) :
                  cv_emit' = [min_votes |-> mv, emitted |-> TRUE, gb |-> gb, votes |-> cv_ret[2]]
          ELSE cv_emit' = NoEntry(mv)
    /\ cv_pc' = "done"
    /\ UNCHANGED <<cv_values, cv_vals, cv_i, cv_j, cv_cluster, cv_best, cv_formed, cv_ret, not_cluster>>

NextCluster ==
    \/ Cluster_Enter
    \/ Cluster_Outer
    \/ Cluster_Extend
    \/ Cluster_Close
    \/ Cluster_Return
    \/ Parse_Emit

\* the call runs in one thread with nothing to wait for: each step that can be
\* taken is taken
SpecCluster == InitCluster /\ [][NextCluster]_vars /\ WF_vars(NextCluster)

(***************************************************************************)
(* fortnite_scraper.select_top_sections, called on its own                 *)
(***************************************************************************)

\* the longest list of sections an article carries
MaxSecs == 4

\* the sections an article may carry: their headers score 0, 2, 2, 1, 0
SectionPool ==
    { DevSecs[1], DevSecs[2], NewsSecs[1],
      [header |-> HdrUefnCaps, items |-> <<>>],
      [header |-> <<>>, items |-> <<"untitled item">>] }

Articles ==
    {NoRecord} \cup {Record(None, secs) : secs \in UNION {[1..n -> SectionPool] : n \in 0..MaxSecs}}

\* fortnite_scraper.py:211, max_sections=3
MAX_SECTIONS == 3

\* fortnite_scraper.py:211, max_items_per=3
MAX_ITEMS_PER == 3

InitSelect ==
    /\ MainInit /\ ClusterOff /\ NormOff /\ FetchOff
    /\ sel_pc = "call"
    /\ sel_article \in Articles
    /\ sel_max_sections \in {1, MAX_SECTIONS}
    /\ sel_max_items_per \in {1, MAX_ITEMS_PER}
    /\ sel_lines = <<>>

\* lines 212-214: no article, or an article without sections, gives []
Select_Empty ==
    /\ sel_pc = "call"
    /\ ~sel_article.present \/ sel_article.sections = <<>>
    /\ sel_lines' = select_top_sections(sel_article, sel_max_sections, sel_max_items_per)
    /\ sel_pc' = "done"
    /\ UNCHANGED <<sel_article, sel_max_sections, sel_max_items_per, not_select>>

\* lines 216-233: score, sort, cut and render
Select_Top ==
    /\ sel_pc = "call"
    /\ sel_article.present /\ sel_article.sections # <<>>
    /\ sel_lines' = select_top_sections(sel_article, sel_max_sections, sel_max_items_per)
    /\ sel_pc' = "done"
    /\ UNCHANGED <<sel_article, sel_max_sections, sel_max_items_per, not_select>>

NextSelect ==
    \/ Select_Empty
    \/ Select_Top

SpecSelect == InitSelect /\ [][NextSelect]_vars

(***************************************************************************)
(* The version each source's parser reads out of the source's text.  Texts *)
(* and versions are sequences of characters; the parsers' None is <<>>.    *)
(***************************************************************************)
NoVersion == <<>>

Digits == {"0", "1", "2", "3", "4", "5", "6", "7", "8", "9"}

LowerLetters == {"a", "b", "c", "d", "e", "f", "g", "h", "i", "j", "k", "l", "m",
                 "n", "o", "p", "q", "r", "s", "t", "u", "v", "w", "x", "y", "z"}

IsDigitAt(text, p) == p \in DOMAIN text /\ text[p] \in Digits

\* \w
IsWordAt(text, p) ==
    /\ p \in DOMAIN text
    /\ text[p] \in Digits \/ text[p] = "_" \/ LowerChar(text[p]) \in LowerLetters

\* \s
IsSpaceAt(text, p) == p \in DOMAIN text /\ text[p] = " "

\* \b in front of position p
WordBoundary(text, p) == IsWordAt(text, p - 1) # IsWordAt(text, p)

\* (\d{a}[.\-]\d{1,2})\b from position g: the last position of the group, the
\* longer minor tried first, or 0
TokenEnd(text, g, a) ==
    IF /\ \A k \in g..(g + a - 1) : IsDigitAt(text, k)
       /\ g + a \in DOMAIN text
       /\ text[g + a] \in {".", "-"}
    THEN IF IsDigitAt(text, g + a + 1) /\ IsDigitAt(text, g + a + 2)
            /\ WordBoundary(text, g + a + 3)
         THEN g + a + 2
         ELSE IF IsDigitAt(text, g + a + 1) /\ WordBoundary(text, g + a + 2)
              THEN g + a + 1
              ELSE 0
    ELSE 0

\* v?\s? from position p, re.IGNORECASE: where the group may start, in the
\* order the matcher tries
GroupStarts(text, p) ==
    LET v == p \in DOMAIN text /\ LowerChar(text[p]) = "v"
    IN  (IF v /\ IsSpaceAt(text, p + 1) THEN <<p + 2>> ELSE <<>>)
        \o (IF v THEN <<p + 1>> ELSE <<>>)
        \o (IF IsSpaceAt(text, p) THEN <<p + 1>> ELSE <<>>)
        \o <<p>>

\* the attempts of a match at p: every group start with every length of the
\* major, in the order the matcher tries
Attempts(text, p, majors) ==
    LET starts == GroupStarts(text, p)
    IN  [k \in 1..(Len(starts) * Len(majors)) |->
            <<starts[((k - 1) \div Len(majors)) + 1], majors[((k - 1) % Len(majors)) + 1]>>]

\* group(1) of a match of \bv?\s?(\d{a}[.\-]\d{1,2})\b at p, or <<>>
MatchAt(text, p, majors) ==
    LET tries == Attempts(text, p, majors)
        hits == {k \in DOMAIN tries : TokenEnd(text, tries[k][1], tries[k][2]) # 0}
        first == CHOOSE k \in hits : \A m \in hits : k <= m
    IN  IF ~WordBoundary(text, p) \/ hits = {} THEN <<>>
        ELSE SubSeq(text, tries[first][1],
                    TokenEnd(text, tries[first][1], tries[first][2]))

\* _VERSION_RX.search(text).group(1): the leftmost match, or <<>>
Search(text, majors) ==
    LET at == {p \in 1..(Len(text) + 1) : MatchAt(text, p, majors) # <<>>}
    IN  IF at = {} THEN <<>>
        ELSE MatchAt(text, CHOOSE p \in at : \A q \in at : p <= q, majors)

\* token.replace("-", ".")
ReplaceDash(token) == [k \in DOMAIN token |-> IF token[k] = "-" THEN "." ELSE token[k]]

\* "v" + token if not token.lower().startswith("v") else token
PrefixV(token) ==
    IF token # <<>> /\ LowerChar(token[1]) = "v" THEN token ELSE <<"v">> \o token

\* fortnite_scraper.py line 11: \d{2} for the major
SCRAPER_MAJORS == <<2>>

\* fortnite_api.py line 71: \d{1,2} for the major, the longer tried first
API_MAJORS == <<2, 1>>

\* fortnite_scraper._extract_version
extract_version(text) ==
    LET m == Search(text, SCRAPER_MAJORS)
    IN  IF m = <<>> THEN NoVersion ELSE PrefixV(ReplaceDash(m))

\* fortnite_api.fetch_fortnite_news lines 97-99
api_news_version(text) ==
    LET m == Search(text, API_MAJORS)
    IN  IF m = <<>> THEN NoVersion ELSE PrefixV(ReplaceDash(m))

RELEASE == <<"r", "e", "l", "e", "a", "s", "e">>

\* the digits from position g, at most two, the longer run tried first, that
\* a character of seps follows: their number, or 0
DigitsBefore(text, g, seps) ==
    IF IsDigitAt(text, g) /\ IsDigitAt(text, g + 1)
       /\ g + 2 \in DOMAIN text /\ text[g + 2] \in seps
    THEN 2
    ELSE IF IsDigitAt(text, g) /\ g + 1 \in DOMAIN text /\ text[g + 1] \in seps
         THEN 1
         ELSE 0

\* _UEFN_RELEASE_RX at p, re.IGNORECASE: release\s+(\d{1,2})[.\-](\d{1,2});
\* the rest of the pattern is optional.  <<major, minor>>, or <<>>
ReleaseAt(text, p) ==
    LET word == p + Len(RELEASE) - 1 <= Len(text)
                /\ \A k \in 1..Len(RELEASE) : LowerChar(text[p + k - 1]) = RELEASE[k]
        s == p + Len(RELEASE)
        g == CHOOSE q \in s..(Len(text) + 1) :
                /\ \A k \in s..(q - 1) : IsSpaceAt(text, k)
                /\ ~IsSpaceAt(text, q)
        a == DigitsBefore(text, g, {".", "-"})
        h == g + a + 1
        b == IF IsDigitAt(text, h) /\ IsDigitAt(text, h + 1) THEN 2
             ELSE IF IsDigitAt(text, h) THEN 1 ELSE 0
    IN  IF word /\ g > s /\ a > 0 /\ b > 0
        THEN <<SubSeq(text, g, g + a - 1), SubSeq(text, h, h + b - 1)>>
        ELSE <<>>

\* f"{int(d):02d}" of one or two digits
Pad2(d) == IF Len(d) = 1 THEN <<"0">> \o d ELSE d

\* fortnite_scraper.parse_uefn_whats_new lines 143-158: the first header that
\* matches gives v{major:02d}.{minor:02d}; a page without one falls back to
\* _extract_version
uefn_version(text) ==
    LET at == {p \in DOMAIN text : ReleaseAt(text, p) # <<>>}
        m == ReleaseAt(text, CHOOSE p \in at : \A q \in at : p <= q)
    IN  IF at = {} THEN extract_version(text)
        ELSE <<"v">> \o Pad2(m[1]) \o <<".">> \o Pad2(m[2])

\* fortnite_api.fetch_game_version lines 62-65: the field as the API sent it
game_version(text) == text

Prefixes == { <<>>, <<"v">>, <<"V">>, <<"v", " ">>,
              <<"R", "e", "l", "e", "a", "s", "e", " ">> }

Majors == { <<"3", "7">>, <<"7">>, <<"1", "3", "7">> }

Separators == { <<".">>, <<"-">> }

Minors == { <<"2", "0">>, <<"2">> }

\* what a source may return around a version: a prefix, the major, a
\* separator and the minor
Texts ==
    {pre \o maj \o sep \o mnr :
        pre \in Prefixes, maj \in Majors, sep \in Separators, mnr \in Minors}

Sources == {"news_api", "news", "dev_docs", "uefn", "api"}

InitNorm ==
    /\ MainInit /\ ClusterOff /\ SelectOff /\ FetchOff
    /\ nv_pc = "parse"
    /\ nv_source \in Sources
    /\ nv_text \in Texts
    /\ nv_version = NoVersion

Parsed_As(v) ==
    /\ nv_version' = v
    /\ nv_pc' = "done"
    /\ UNCHANGED <<nv_source, nv_text, not_norm>>

\* fetch_fortnite_news reads the post's title and body
Parse_ApiNews == nv_pc = "parse" /\ nv_source = "news_api" /\ Parsed_As(api_news_version(nv_text))

\* parse_fortnite_news_article line 79
Parse_NewsArticle == nv_pc = "parse" /\ nv_source = "news" /\ Parsed_As(extract_version(nv_text))

\* parse_epic_dev_docs_article line 99
Parse_DevDocs == nv_pc = "parse" /\ nv_source = "dev_docs" /\ Parsed_As(extract_version(nv_text))

\* parse_uefn_whats_new
Parse_Uefn == nv_pc = "parse" /\ nv_source = "uefn" /\ Parsed_As(uefn_version(nv_text))

\* fetch_game_version
Parse_GameVersion == nv_pc = "parse" /\ nv_source = "api" /\ Parsed_As(game_version(nv_text))

NextNorm ==
    \/ Parse_ApiNews
    \/ Parse_NewsArticle
    \/ Parse_DevDocs
    \/ Parse_Uefn
    \/ Parse_GameVersion

SpecNorm == InitNorm /\ [][NextNorm]_vars

(***************************************************************************)
(* fortnite_update_notifier.fetch, one step per loop test, attempt and     *)
(* sleep.  Delays are in tenths of a second.                               *)
(***************************************************************************)

\* the largest retries a caller passes
MaxRetries == 3

\* line 62, retries=3
RETRIES == 3

\* line 66, delay = 0.8
FIRST_DELAY == 8

\* what an attempt may raise: requests.get (no connection, timeout),
\* raise_for_status, and r.json() when json_mode is set
Errors(json_mode) ==
    {"ConnectionError", "Timeout", "HTTPError"}
        \cup (IF json_mode THEN {"JSONDecodeError"} ELSE {})

\* line 74: r.json() if json_mode else r.text
Body(json_mode) == IF json_mode THEN "r.json()" ELSE "r.text"

IsLastTry_Never(i, retries) == FALSE

\* line 78: if i == retries - 1
IsLastTry(i, retries) == i = retries - 1

\* line 80: delay *= 2
NextDelay(delay) == delay * 2

InitFetch ==
    /\ MainInit /\ ClusterOff /\ SelectOff /\ NormOff
    /\ f_pc = "loop"
    /\ f_retries \in 0..MaxRetries
    /\ f_json_mode \in BOOLEAN
    /\ f_i = 0
    /\ f_delay = FIRST_DELAY
    /\ f_last_exc = None
    /\ f_attempts = <<>> /\ f_sleeps = <<>>
    /\ f_result = None

\* line 68: for i in range(retries), one more turn
Fetch_Loop ==
    /\ f_pc = "loop"
    /\ f_i < f_retries
    /\ f_pc' = "try"
    /\ UNCHANGED <<f_retries, f_json_mode, f_i, f_delay, f_last_exc, f_attempts,
                   f_sleeps, f_result, not_fetch>>

\* lines 69-74: the attempt succeeds and its body is returned
Fetch_Return ==
    /\ f_pc = "try"
    /\ f_attempts' = Append(f_attempts, "ok")
    /\ f_result' = Body(f_json_mode)
    /\ f_pc' = "returned"
    /\ UNCHANGED <<f_retries, f_json_mode, f_i, f_delay, f_last_exc, f_sleeps, not_fetch>>

\* lines 69-79: the attempt raises; the last try raises it again
Fetch_Except ==
    /\ f_pc = "try"
    /\ \E e \in Errors(f_json_mode) :
          /\ f_attempts' = Append(f_attempts, e)
          /\ f_last_exc' = e
          /\ IF IsLastTry(f_i, f_retries)
             THEN f_pc' = "raised" /\ f_result' = e
             ELSE f_pc' = "sleep" /\ UNCHANGED f_result
    /\ UNCHANGED <<f_retries, f_json_mode, f_i, f_delay, f_sleeps, not_fetch>>

\* line 80, and the loop's next i
Fetch_Sleep ==
    /\ f_pc = "sleep"
    /\ f_sleeps' = Append(f_sleeps, f_delay)
    /\ f_delay' = NextDelay(f_delay)
    /\ f_i' = f_i + 1
    /\ f_pc' = "loop"
    /\ UNCHANGED <<f_retries, f_json_mode, f_last_exc, f_attempts, f_result, not_fetch>>

\* lines 81-82: the loop is over; raise last_exc if there is one, else fall
\* off the end and return None
Fetch_AfterLoop ==
    /\ f_pc = "loop"
    /\ f_i >= f_retries
    /\ IF f_last_exc # None
       THEN f_pc' = "raised" /\ f_result' = f_last_exc
       ELSE f_pc' = "returned" /\ f_result' = None
    /\ UNCHANGED <<f_retries, f_json_mode, f_i, f_delay, f_last_exc, f_attempts,
                   f_sleeps, not_fetch>>

NextFetch ==
    \/ Fetch_Loop
    \/ Fetch_Return
    \/ Fetch_Except
    \/ Fetch_Sleep
    \/ Fetch_AfterLoop

\* requests.get runs with a timeout and time.sleep returns: each step that can
\* be taken is taken
SpecFetch == InitFetch /\ [][NextFetch]_vars /\ WF_vars(NextFetch)

(***************************************************************************)
(* Properties                                                              *)
(***************************************************************************)
\* main() has run past its configuration check and has ended
RunEnded == pc = "idle" /\ outcome \in {"returned", "delivery_error", "source_error"}
\* ... and reached the end of reconciliation (no probe aborted it)
Reconciled == pc = "idle" /\ outcome \in {"returned", "delivery_error"}
Accepted == response = "2xx"
Carries(title, v) == \E i \in DOMAIN title : title[i] = v
DiagnosticWire(why) ==
    /\ Len(posts) = 1
    /\ Carries(posts[1].embed.title, Unknown)
    /\ posts[1].embed.description = <<NoteLine(why)>>

NoVersionNoMaintenance ==
    Reconciled /\ ~forced /\ ~Truthy(version) /\ reason # REASON_DOWNTIME

AnnouncesNow(v) ==
    /\ ~forced
    /\ Len(posts') = Len(posts) + 1
    /\ Carries(posts'[Len(posts')].embed.title, v)

\* C2: over non-forced runs, a version is never announced a second time unless
\* a different real version was announced in between: the version a non-forced
\* run announces is never the latest real version announced before it.
C2_NoReannouncement ==
    [][\A v \in Versions : AnnouncesNow(v) => last_real # v]_vars

\* C3: a non-forced run that resolves a version V and delivers it leaves V
\* persisted, and a non-forced run that resolves V and has loaded last_version
\* = V makes no delivery call and no state write; so the second of two runs
\* over the same records is suppressed.
C3_SecondRunSuppressed ==
    (Reconciled /\ ~forced /\ Truthy(version)) =>
        /\ Accepted => state_file = version
        /\ last_version = version =>
              (post_calls = 0 /\ posts = <<>> /\ writes = 0 /\ state_file = version)

C3_Witness ==
    /\ Reconciled /\ ~forced /\ version = "v37.20" /\ last_version = "v37.20"
    /\ post_calls = 0 /\ last_real = "v37.20"

\* C4: a non-forced run that finds no version and has loaded the sentinel as
\* last_version (an earlier run delivered the unknown-version announcement and
\* persisted it) makes no delivery call.
C4_UnknownAnnouncedOnce ==
    (Reconciled /\ ~forced /\ ~Truthy(version) /\ last_version = Unknown) => post_calls = 0

\* C5: a forced run never writes the persisted state, whatever the sources
\* gave, whatever was loaded and however the delivery ended.
C5_ForcedNeverWrites ==
    (forced /\ outcome \in {"running", "returned", "delivery_error", "source_error"}) =>
        (writes = 0 /\ state_file = last_version)

C5_Witness ==
    /\ Reconciled /\ forced /\ Accepted /\ Len(posts) = 1
    /\ Truthy(version) /\ version # last_version /\ state_file = last_version

C7_SourceFailuresAbsorbed ==
    outcome \in {"none", "running", "returned", "config_error", "delivery_error"}

\* C8: a non-forced run whose resolved version V is non-empty and differs from
\* the loaded last_version, and whose delivery is accepted, delivers exactly
\* one announcement, its title carries V, and last_version is V at the end.
C8_NewVersionAnnouncedAndSaved ==
    (Reconciled /\ ~forced /\ Truthy(version) /\ version # last_version /\ Accepted) =>
        /\ post_calls = 1 /\ Len(posts) = 1
        /\ Carries(posts[1].embed.title, version)
        /\ state_file = version

C8_Witness ==
    /\ Reconciled /\ ~forced /\ Accepted /\ version = "v37.20" /\ last_version = "v37.10"
    /\ Len(posts) = 1 /\ Carries(posts[1].embed.title, "v37.20") /\ state_file = "v37.20"

\* the version of the first record of `order` that has one
RECURSIVE FirstVersion(_)
FirstVersion(order) ==
    IF order = <<>> THEN None
    ELSE IF Head(order).present /\ Truthy(Head(order).version) THEN Head(order).version
    ELSE FirstVersion(Tail(order))

\* C9 as stated: the run resolves the version of the first source that has
\* one, in the order news, dev docs, vendor API, UEFN page.
C9_PriorityApiBeforeUefn ==
    [][pc = "reconcile" => version' = FirstVersion(<<news, devs, api, uefn>>)]_vars

\* C9 amended: the order is news article, developer documentation, UEFN
\* What's New page, vendor API; a lower-priority source's version is used only
\* when every higher-priority source produced none.
C9_PriorityUefnBeforeApi ==
    [][pc = "reconcile" => version' = FirstVersion(<<news, devs, uefn, api>>)]_vars

C9_Witness ==
    /\ pc = "reconcile" /\ ~Truthy(news.version) /\ ~devs.present
    /\ uefn.version = "v37.20" /\ api.version = "v37.10"

\* the lines of the first record of `order` that has sections
RECURSIVE FirstSections(_)
FirstSections(order) ==
    IF order = <<>> THEN <<>>
    ELSE IF Head(order).present /\ Head(order).sections # <<>> THEN Head(order).sections
    ELSE FirstSections(Tail(order))

\* C10: the highlight lines of a delivered versioned announcement are those
\* selected from the first source, in priority order, whose record has
\* sections; when no source has sections they are one placeholder line.
C10_HighlightsFromFirstWithSections ==
    [][(pc = "reconcile" /\ Len(posts') = 1 /\ Truthy(version')) =>
        LET secs == FirstSections(<<news, devs, uefn, api>>)
            shown == posts'[1].embed.description
        IN IF secs = <<>>
           THEN Len(shown) = 1 /\ shown[1].kind = "note"
           ELSE shown = select_top_sections(Record(None, secs), 3, 3)]_vars


\* C11: a forced run in which no source yields a version delivers exactly one
\* announcement (its delivery being accepted), which carries the sentinel
\* version and is marked as the diagnostic unknown-version message.
C11_ForcedUnknownIsDiagnostic ==
    (Reconciled /\ forced /\ ~Truthy(version) /\ Accepted) =>
        /\ post_calls = 1 /\ Len(posts) = 1
        /\ Carries(posts[1].embed.title, Unknown)
        /\ posts[1].content = UNKNOWN_CONTENT

\* the sources of a run in link order, with the label of each one's link
LinkSources ==
    << [label |-> "Full notes (News)", url |-> news_url],
       [label |-> "Dev release notes", url |-> dev_url],
       [label |-> "UEFN What's New", url |-> uefn_url],
       [label |-> "fortniteapi.io", url |-> api_url] >>

\* lks has exactly one link for each source that returned a URL, in source
\* order, then the status-page link, and no link twice
OneLinkPerSource(lks) ==
    LET with == {k \in DOMAIN LinkSources : Truthy(LinkSources[k].url)}
        At(k) == {i \in DOMAIN lks : lks[i] = Link(LinkSources[k].label, LinkSources[k].url)}
    IN /\ Len(lks) = Cardinality(with) + 1
       /\ lks[Len(lks)] = EPIC_STATUS_LINK
       /\ \A k \in with : Cardinality(At(k)) = 1
       /\ \A k1, k2 \in with : k1 < k2 => \A i \in At(k1), j \in At(k2) : i < j
       /\ \A i, j \in DOMAIN lks : i # j => lks[i] # lks[j]

\* this step ends a run with an accepted delivery
DeliversNow == pc = "reconcile" /\ Len(posts') = 1

\* C12 as stated: every delivered announcement, the diagnostic one included,
\* lists one link per source that returned a URL, in order, then the
\* status-page link, with no link twice.
C12_LinksOnEveryAnnouncement ==
    [][DeliversNow => OneLinkPerSource(posts'[1].embed.links)]_vars

\* C12 amended: every delivered versioned or forced announcement lists them
\* so (order: news, dev docs, UEFN, vendor API); the diagnostic
\* unknown-version announcement lists the status-page link alone.
C12_LinksOnVersionedAndForced ==
    [][DeliversNow =>
        IF posts'[1].content = UNKNOWN_CONTENT
        THEN posts'[1].embed.links = <<EPIC_STATUS_LINK>>
        ELSE OneLinkPerSource(posts'[1].embed.links)]_vars

C12_Witness ==
    /\ Reconciled /\ Accepted /\ Len(posts) = 1 /\ Truthy(version)
    /\ Len(posts[1].embed.links) = 5
    /\ posts[1].embed.links[3] = Link("UEFN What's New", UEFN_WHATS_NEW_URL)

\* the median of an ascending list, doubled: the middle member, or the mean of
\* the two middle members
Median2(c) ==
    IF Len(c) % 2 = 1 THEN 2 * c[(Len(c) + 1) \div 2]
    ELSE c[Len(c) \div 2] + c[Len(c) \div 2 + 1]

\* the member a cluster is measured from, doubled: its upper middle member,
\* or its median
Centre2(c, upper) == IF upper THEN 2 * c[Len(c) \div 2 + 1] ELSE Median2(c)

\* |v - m| <= max(0.25, 0.12 * m) for a doubled centre m2, in hundredths
Near2(m2, v) == Abs(2 * v - m2) * 100 <= Max(5000, 12 * m2)

\* the longest run that starts with c and goes on through rest
RECURSIVE GrowRun(_, _, _)
GrowRun(c, rest, upper) ==
    IF rest = <<>> THEN <<c, rest>>
    ELSE IF Near2(Centre2(c, upper), Head(rest))
         THEN GrowRun(Append(c, Head(rest)), Tail(rest), upper)
         ELSE <<c, rest>>

RECURSIVE GreedyRuns(_, _)
GreedyRuns(sorted, upper) ==
    IF sorted = <<>> THEN <<>>
    ELSE LET g == GrowRun(<<Head(sorted)>>, Tail(sorted), upper)
         IN  <<g[1]>> \o GreedyRuns(g[2], upper)

\* the first of the longest runs
Largest(runs) ==
    runs[CHOOSE k \in DOMAIN runs :
            /\ \A m \in DOMAIN runs : Len(runs[m]) <= Len(runs[k])
            /\ \A m \in 1..(k - 1) : Len(runs[m]) < Len(runs[k])]

Occurrences(seq, v) == Cardinality({k \in DOMAIN seq : seq[k] = v})

Ascending(seq) == \A k \in 1..(Len(seq) - 1) : seq[k] <= seq[k + 1]

IsSorting(sorted, values) ==
    /\ Len(sorted) = Len(values)
    /\ Ascending(sorted)
    /\ \A v \in ObsValues : Occurrences(sorted, v) = Occurrences(values, v)

Estimate(upper) ==
    LET best == Largest(GreedyRuns(cv_vals, upper))
    IN  <<Median2(best), Len(best)>>

Estimated(upper) ==
    (cv_pc = "done" /\ cv_values # <<>>) =>
        /\ IsSorting(cv_vals, cv_values)
        /\ cv_ret = Estimate(upper)
        /\ cv_emit.emitted <=> cv_ret[2] >= cv_emit.min_votes
        /\ cv_emit.emitted =>
              /\ cv_emit.votes = cv_ret[2]
              /\ Abs(2 * cv_emit.gb - cv_ret[1]) <= 1

OutlierExample ==
    (cv_pc = "done" /\ cv_values = <<500, 510, 505, 900>>) =>
        /\ cv_ret = <<1010, 3>>
        /\ cv_emit.min_votes <= 3 => (cv_emit.emitted /\ cv_emit.gb = 505 /\ cv_emit.votes = 3)

\* C13 as stated: the size estimator sorts the observations, grows clusters
\* greedily (a value joins while it is within max(0.25, 0.12 * median) of the
\* median of the cluster so far), reports the median and the member count of
\* the largest cluster, and emits an estimate only when that cluster has at
\* least min_votes members; [5.0, 5.1, 5.05, 9.0] gives 5.05 from 3 votes.
C13_ClusterAroundMedian == Estimated(FALSE) /\ OutlierExample

\* C13 amended: the same, with the cluster so far measured from its upper
\* middle member, cluster[len(cluster) // 2], which is the median only of a
\* cluster with an odd number of members.
C13_ClusterAroundUpperMiddle == Estimated(TRUE) /\ OutlierExample

C13_Witness ==
    /\ cv_pc = "done"
    /\ cv_values = <<500, 510, 505, 900>>
    /\ cv_emit = [min_votes |-> MIN_VOTES, emitted |-> TRUE, gb |-> 505, votes |-> 3]
    /\ cv_formed = << <<500, 505, 510>>, <<900>> >>

\* keyword k occurs in the lowered header at position p
OccursAt(k, lowered, p) ==
    /\ p + Len(k) - 1 <= Len(lowered)
    /\ \A t \in 1..Len(k) : lowered[p + t - 1] = k[t]

\* the number of priority keywords that occur in the header, whatever its case
KeywordScore(header) ==
    LET lowered == [p \in DOMAIN header |-> LowerChar(header[p])]
    IN  Cardinality({k \in DOMAIN priority :
                        \E p \in 1..Len(header) : OccursAt(Chars(priority[k]), lowered, p)})

\* the sections in their places: a section comes after those that score
\* higher and those that score the same and stand earlier; the first n of them
TopSections(secs, n) ==
    LET score == [i \in DOMAIN secs |-> KeywordScore(secs[i].header)]
        before == [i \in DOMAIN secs |->
                      Cardinality({j \in DOMAIN secs :
                                      \/ score[j] > score[i]
                                      \/ score[j] = score[i] /\ j < i})]
    IN  [p \in 1..(IF Len(secs) < n THEN Len(secs) ELSE n) |->
            secs[CHOOSE i \in DOMAIN secs : before[i] = p - 1]]

SelectDone == sel_pc = "done" /\ sel_article.present /\ sel_article.sections # <<>>

\* C14: select_top_sections outputs the max_sections sections with the highest
\* keyword score (the number of priority keywords that occur in the header,
\* whatever the case), highest score first and equal scores in the original
\* order; when every section scores zero these are the first max_sections
\* sections in the original order.
C14_TopSectionsByScore ==
    SelectDone =>
        /\ sel_lines = Flatten(TopSections(sel_article.sections, sel_max_sections),
                               sel_max_items_per)
        /\ (\A i \in DOMAIN sel_article.sections :
                KeywordScore(sel_article.sections[i].header) = 0) =>
              sel_lines = Flatten(Prefix(sel_article.sections, sel_max_sections),
                                  sel_max_items_per)

C14_Witness ==
    /\ sel_pc = "done"
    /\ sel_max_sections = MAX_SECTIONS /\ sel_max_items_per = 1
    /\ sel_article.present
    /\ Len(sel_article.sections) = 4
    /\ [i \in 1..4 |-> sel_article.sections[i].header]
          = <<HdrIslands, HdrUefnCaps, HdrBugFixes, HdrNewWeapons>>
    /\ [i \in DOMAIN sel_lines |-> sel_lines[i].text]
          = <<HdrBugFixes, <<"dev fix">>, HdrNewWeapons, <<"news item">>, HdrUefnCaps>>

\* v<major>.<minor>: a "v", digits, a ".", digits
Canonical(v) ==
    \E dot \in 3..(Len(v) - 1) :
        /\ v[1] = "v"
        /\ v[dot] = "."
        /\ \A k \in (2..Len(v)) \ {dot} : v[k] \in Digits

RawTokens == { <<"3", "7", ".", "2", "0">>, <<"v", "3", "7", ".", "2", "0">>,
               <<"3", "7", "-", "2", "0">> }

\* C15: every version that a source's parser hands to the reconciler has the
\* form v<major>.<minor>, and the raw tokens 37.20, v37.20 and 37-20 all give
\* v37.20, whichever source reported them.
C15_VersionsCanonical ==
    (nv_pc = "done" /\ nv_version # NoVersion) =>
        /\ Canonical(nv_version)
        /\ nv_text \in RawTokens => nv_version = <<"v", "3", "7", ".", "2", "0">>

RECURSIVE Doubled(_, _)
Doubled(first, k) == IF k = 1 THEN first ELSE 2 * Doubled(first, k - 1)

FetchEnded == f_pc \in {"returned", "raised"}

Failures == {k \in DOMAIN f_attempts : f_attempts[k] # "ok"}

FetchSafe ==
    /\ Len(f_attempts) <= f_retries
    /\ \A k \in DOMAIN f_attempts : f_attempts[k] = "ok" => k = Len(f_attempts)
    /\ \A k \in DOMAIN f_sleeps : f_sleeps[k] = Doubled(8, k)
    /\ Len(f_sleeps) <= Cardinality(Failures)
    /\ (f_pc = "returned" /\ f_attempts # <<>>) =>
          /\ f_attempts[Len(f_attempts)] = "ok"
          /\ f_result = Body(f_json_mode)
          /\ Len(f_sleeps) = Len(f_attempts) - 1
    /\ f_pc = "raised" =>
          /\ Len(f_attempts) = f_retries
          /\ Failures = DOMAIN f_attempts
          /\ Len(f_sleeps) = f_retries - 1
          /\ f_result = f_attempts[f_retries]
    /\ (FetchEnded /\ f_retries > 0) => f_attempts # <<>>

\* C16: fetch makes at most `retries` attempts; it returns the result of the
\* first attempt that succeeds and attempts no more; it waits 0.8 s after the
\* first failure and twice the last wait after each further one, never after
\* the final attempt; after the final failed attempt it ends by raising that
\* attempt's error.
C16_FetchRetries == []FetchSafe /\ <>FetchEnded

C16_Witness ==
    /\ f_pc = "raised"
    /\ f_retries = RETRIES
    /\ f_attempts = <<"Timeout", "ConnectionError", "HTTPError">>
    /\ f_sleeps = <<8, 16>>
    /\ f_result = "HTTPError"

RECURSIVE Concat(_)
Concat(seqs) == IF seqs = <<>> THEN <<>> ELSE Head(seqs) \o Concat(Tail(seqs))

ClusterEnded == cv_pc \in {"returned", "done"}

Smallest(values) == CHOOSE v \in {values[k] : k \in DOMAIN values} : \A k \in DOMAIN values : v <= values[k]

Greatest(values) == CHOOSE v \in {values[k] : k \in DOMAIN values} : \A k \in DOMAIN values : v >= values[k]

\* the clusters closed so far are runs of the sorted values, one after the
\* other from the first value on; at the end they hold every value once
ClusterSafe ==
    /\ \A k \in DOMAIN cv_formed : cv_formed[k] # <<>>
    /\ Len(Concat(cv_formed)) <= Len(cv_vals)
    /\ Concat(cv_formed) = SubSeq(cv_vals, 1, Len(Concat(cv_formed)))
    /\ (ClusterEnded /\ cv_values # <<>>) =>
          /\ IsSorting(cv_vals, cv_values)
          /\ Concat(cv_formed) = cv_vals
          /\ cv_ret[2] >= 1
          /\ 2 * Smallest(cv_values) <= cv_ret[1]
          /\ cv_ret[1] <= 2 * Greatest(cv_values)
    /\ ClusterEnded => cv_ret[2] <= Len(cv_values)

\* C17: _cluster_values terminates for every finite list of values; the
\* clusters it forms are disjoint consecutive runs of the sorted values that
\* together hold every value exactly once; so the reported vote count never
\* exceeds the number of observations, and the reported value lies between
\* the smallest and the largest observation.
C17_ClustersPartition == []ClusterSafe /\ <>ClusterEnded

C17_Witness ==
    /\ cv_pc = "returned"
    /\ cv_values = <<900, 100, 125, 500>>
    /\ cv_formed = << <<100, 125>>, <<500>>, <<900>> >>
    /\ cv_ret = <<225, 2>>

====
